---- MODULE Spec2Model ----
(***************************************************************************)
(* Nutrition gamification recompute engine of tinytummy.                   *)
(*                                                                         *)
(* The model follows app/services/gamification_v1.py (recompute_for_day    *)
(* and compute_daily_score), the tables of app/models/gamification.py and  *)
(* the meal routes of app/routes/meals.py that call the engine.            *)
(*                                                                         *)
(* A nullable column or an optional value is a sequence of length 0 or 1:  *)
(* <<>> is NULL / None, <<v>> is the value v.  A table is a function from  *)
(* the columns of its unique constraint to the sequence of rows carrying   *)
(* that key, so that a duplicate row is a state the model can express.     *)
(***************************************************************************)
EXTENDS Integers, Sequences, FiniteSets

(***************************************************************************)
(* Bounds of the model: calendar days and requests under the serial        *)
(* schedule, the same under the overlap and faulty schedules, and the      *)
(* statements that may raise in one behaviour; the days of the week        *)
(* schedule and the repeated recomputes in it; the requests of the faulty  *)
(* routes schedule and of the badges schedule; the badge evaluations of    *)
(* the badges schedule.                                                    *)
(***************************************************************************)
MaxDay == 3
MaxReqs == 3
MaxRaceDay == 2
MaxRaceReqs == 2
MaxFail == 1
MaxWeek == 7
MaxExtra == 2
MaxFaultyReqs == 1
MaxAwards == 3

(***************************************************************************)
(* Identifiers.                                                            *)
(***************************************************************************)
Users == {"u1", "u2"}
ChildIds == {"c1", "c2"}
Procs == {"p1", "p2"}
Days == 1..MaxDay

None == <<>>
Some(v) == <<v>>

(***************************************************************************)
(* Nutrient columns of Meal that _totals_for_day sums, and the weighted    *)
(* keys of compute_daily_score in the order of its weights dict.           *)
(***************************************************************************)
NutrientKeys ==
    {"calories", "protein_g", "fiber_g", "iron_mg", "calcium_mg",
     "vitamin_a_iu", "vitamin_c_mg", "vitamin_d_iu", "zinc_mg"}

WeightKeys ==
    <<"calories", "protein_g", "iron_mg", "calcium_mg", "vitamin_c_mg", "fiber_g">>

weights ==
    [k \in {WeightKeys[i] : i \in 1..Len(WeightKeys)} |->
        CASE k = "calories" -> 25
          [] k = "protein_g" -> 25
          [] k = "iron_mg" -> 15
          [] k = "calcium_mg" -> 15
          [] k = "vitamin_c_mg" -> 10
          [] k = "fiber_g" -> 10]

(***************************************************************************)
(* _targets_for_age_region: three age bands, region ignored.  A key the    *)
(* band's dict does not hold is None (dict.get).                           *)
(***************************************************************************)
Band1 ==
    [k \in NutrientKeys |->
        CASE k = "calories" -> Some(700)
          [] k = "protein_g" -> Some(11)
          [] k = "iron_mg" -> Some(11)
          [] k = "vitamin_d_iu" -> Some(400)
          [] OTHER -> None]

Band2 ==
    [k \in NutrientKeys |->
        CASE k = "calories" -> Some(1000)
          [] k = "protein_g" -> Some(13)
          [] k = "fiber_g" -> Some(14)
          [] k = "iron_mg" -> Some(7)
          [] k = "calcium_mg" -> Some(700)
          [] k = "vitamin_a_iu" -> Some(1000)
          [] k = "vitamin_c_mg" -> Some(15)
          [] k = "vitamin_d_iu" -> Some(600)
          [] k = "zinc_mg" -> Some(3)]

Band3 ==
    [k \in NutrientKeys |->
        CASE k = "calories" -> Some(1200)
          [] k = "protein_g" -> Some(19)
          [] k = "fiber_g" -> Some(17)
          [] k = "iron_mg" -> Some(10)
          [] k = "calcium_mg" -> Some(1000)
          [] k = "vitamin_c_mg" -> Some(25)
          [] k = "zinc_mg" -> Some(5)
          [] OTHER -> None]

targets_for_age_region(age_months) ==
    IF age_months <= 12 THEN Band1
    ELSE IF age_months <= 36 THEN Band2
    ELSE Band3

(***************************************************************************)
(* Python's round() of the rational n/d (d > 0): to the nearest integer,   *)
(* a tie to the even one.  \div and % floor, so n may be negative.         *)
(***************************************************************************)
RoundHalfEven(n, d) ==
    LET q == n \div d
        r == n % d
    IN  IF 2 * r < d THEN q
        ELSE IF 2 * r > d THEN q + 1
        ELSE IF q % 2 = 0 THEN q ELSE q + 1

(***************************************************************************)
(* One pass of the loop of compute_daily_score: the points of one weighted *)
(* key.  frac = min(act / tgt, 1.0); pts = int(round(frac * weight)).      *)
(***************************************************************************)
ComponentPoints(tgt, act, weight) ==
    IF tgt # None /\ act # None /\ tgt[1] > 0
    THEN IF act[1] >= tgt[1]
         THEN weight
         ELSE RoundHalfEven(act[1] * weight, tgt[1])
    ELSE 0

RECURSIVE SumSeq(_)
SumSeq(s) == IF s = <<>> THEN 0 ELSE Head(s) + SumSeq(Tail(s))

(***************************************************************************)
(* The score part of compute_daily_score: component_scores in the order of *)
(* the weights dict, and total_score their sum.                            *)
(***************************************************************************)
ScoreOf(targets, totals) ==
    LET comps == [i \in 1..Len(WeightKeys) |->
                    ComponentPoints(targets[WeightKeys[i]], totals[WeightKeys[i]],
                                    weights[WeightKeys[i]])]
    IN  [score |-> SumSeq(comps), components |-> comps]

(***************************************************************************)
(* Meals.  The nutrient columns of a Meal row are what the meal analysis   *)
(* returned (create_meal stores nutrition_breakdown unvalidated), so a     *)
(* column is NULL or any number.  A meal's kind names its nutrient row.    *)
(***************************************************************************)
MealKinds == {"most", "top"}

\* The meals of the week schedule: "half" meets the calories and protein
\* targets of a four-year-old and holds 0 of the other weighted nutrients.
WeekKinds == {"half", "most"}

Nutrients(kind) ==
    [k \in NutrientKeys |->
        CASE kind = "most" /\ k = "calories" -> Some(1200)
          [] kind = "most" /\ k = "protein_g" -> Some(19)
          [] kind = "most" /\ k = "iron_mg" -> Some(10)
          [] kind = "most" /\ k = "calcium_mg" -> Some(1000)
          [] kind = "half" /\ k = "calories" -> Some(1200)
          [] kind = "half" /\ k = "protein_g" -> Some(19)
          [] kind = "half" /\ k \in {"iron_mg", "calcium_mg", "vitamin_c_mg", "fiber_g"} -> Some(0)
          [] kind = "top" /\ k = "vitamin_c_mg" -> Some(25)
          [] kind = "top" /\ k = "fiber_g" -> Some(17)
          [] OTHER -> None]

VARIABLES
    sched,              \* "serial": one request at a time; "overlap": two at
                        \* a time; "faulty": serial, and statements may raise;
                        \* "week": serial, a meal a day in ascending order;
                        \* "ledger": two at a time on one day, and ledger
                        \* inserts may raise;
                        \* "summary": serial, logs and summary reads of
                        \* one day;
                        \* "badges": serial logs of one day, badge
                        \* evaluations two at a time, child deletion;
                        \* "routes": serial, whole requests of the routes;
                        \* "routes_faulty": the same, statements may raise
    children,           \* children table: child id -> <<>> or <<row>>
    meals,              \* meals table: set of rows
    meal_seq,           \* meals created so far (the next row's id - 1)
    gam_daily_score,    \* <<user, child, date>> -> rows
    gam_points_ledger,  \* <<user, child, date, reason>> -> rows
    gam_streak,         \* <<user, child>> -> rows
    user_badges,        \* user -> badge name -> number of UserBadge rows
    badges,             \* badge name -> a Badge row of that name exists
    award,              \* per caller: locals of maybe_award_badges
    award_calls,        \* maybe_award_badges calls started
    pc,                 \* per request handler: the statement it is at
    loc,                \* per request handler: locals of recompute_for_day
    result,             \* per request handler: what its last call returned
    reqs,               \* requests started
    fails,              \* storage failures injected
    epoch,              \* history: the calls in flight together
    hist,               \* history: the last two completed serial calls
    reported,           \* history: per day, the points_awarded_today that
                        \* the calls of the ledger schedule have returned
    calc                \* input and output of the score calculator alone

vars ==
    <<sched, children, meals, meal_seq, gam_daily_score, gam_points_ledger,
      gam_streak, user_badges, badges, award, award_calls, pc, loc, result, reqs, fails, epoch, hist,
      reported, calc>>

Reasons == {"base", "score70", "score90"}
BadgeNames == {"starter_chef", "seven_day_strong", "perfect_day"}

\* The streak length of the seven_day_strong badge.
SevenDays == 7

\* The (user, child) pairs recompute_for_day is called for: the owner of c1,
\* and, by a caller of the entry point itself, another user and a child id
\* that has no row.
CallPairs == {<<"u1", "c1">>, <<"u2", "c1">>, <<"u1", "c2">>}

\* What the requests of a schedule can name; the tables' keys range over it.
Callers == IF sched = "serial" THEN CallPairs ELSE {<<"u1", "c1">>}
DayChoices ==
    CASE sched \in {"serial", "routes"} -> Days
      [] sched = "week" -> 1..MaxWeek
      [] sched \in {"ledger", "summary", "badges"} -> {1}
      [] OTHER -> 1..MaxRaceDay

DsKeys == {<<uc[1], uc[2], d>> : uc \in Callers, d \in DayChoices}
LedgerKeys == {<<uc[1], uc[2], d, r>> : uc \in Callers, d \in DayChoices, r \in Reasons}
StreakKeys == Callers

(***************************************************************************)
(* Child lookup of compute_daily_score: the row with this id and owner.    *)
(***************************************************************************)
ChildOf(user, child) ==
    IF children[child] # <<>> /\ children[child][1].user_id = user
    THEN children[child]
    ELSE None

(***************************************************************************)
(* The child_id foreign key of the three gam_ tables: a write naming a     *)
(* child that has no row fails.                                            *)
(***************************************************************************)
ForeignKeyOk(child) == children[child] # <<>>

MealsOn(user, child, day) ==
    {m \in meals : m.user_id = user /\ m.child_id = child /\ m.day = day}

HasAnyMeal(user, child, day) == MealsOn(user, child, day) # {}

RECURSIVE SumColumn(_, _)
SumColumn(ms, k) ==
    IF ms = {} THEN 0
    ELSE LET m == CHOOSE x \in ms : TRUE
         IN  Nutrients(m.kind)[k][1] + SumColumn(ms \ {m}, k)

(***************************************************************************)
(* _totals_for_day: SQL sum() per column skips NULLs and is NULL when no   *)
(* row has a value; a NULL sum is left out of the dict.                    *)
(***************************************************************************)
totals_for_day(user, child, day) ==
    [k \in NutrientKeys |->
        LET ms == {m \in MealsOn(user, child, day) : Nutrients(m.kind)[k] # None}
        IN  IF ms = {} THEN None ELSE Some(SumColumn(ms, k))]

(***************************************************************************)
(* Statements of recompute_for_day against one key's rows.                 *)
(***************************************************************************)

\* Mutant: the insert without its conflict clause or unique constraint.
InsertBlind(rows, row) == Append(rows, row)

\* INSERT ... ON CONFLICT DO NOTHING on the key's unique constraint.
InsertIgnore(rows, row) == IF rows = <<>> THEN <<row>> ELSE rows

\* Mutant: a rowcount of 1 whether or not the row was inserted.
InsertCountBlind(rows) == 1

\* Its rowcount.
InsertIgnoreCount(rows) == IF rows = <<>> THEN 1 ELSE 0

\* INSERT (score) ... ON CONFLICT DO UPDATE SET score: a new row takes the
\* column default {} for components_json, a row in place keeps its own.
UpsertScore(rows, score) ==
    IF rows = <<>>
    THEN <<[score |-> score, components |-> <<>>]>>
    ELSE [rows EXCEPT ![1] = [@ EXCEPT !.score = score]]

\* Mutant: the streak insert with ON CONFLICT DO NOTHING.
UpsertStreakInsertOnly(rows, row) == IF rows = <<>> THEN <<row>> ELSE rows

\* INSERT ... ON CONFLICT DO UPDATE SET current_length, best_length,
\* last_active_date.
UpsertStreak(rows, row) ==
    IF rows = <<>> THEN <<row>> ELSE [rows EXCEPT ![1] = row]

\* The ORM flush of compute_daily_score: an INSERT when the SELECT found no
\* row (refused by the unique constraint when one has appeared since), else
\* an UPDATE by primary key of the columns whose value differs from the one
\* loaded.
OrmFlushScore(rows, existing, daily) ==
    IF existing = None
    THEN IF rows = <<>> THEN <<daily>> ELSE rows
    ELSE IF rows = <<>> THEN rows
         ELSE [rows EXCEPT ![1] =
                [score |-> IF daily.score # existing[1].score
                           THEN daily.score ELSE @.score,
                 components |-> IF daily.components # existing[1].components
                                THEN daily.components ELSE @.components]]

\* The flush's INSERT raises IntegrityError (caught as SQLAlchemyError and
\* rolled back) when a row for the key has appeared since the SELECT.
OrmFlushConflict(rows, existing) == existing = None /\ rows # <<>>

\* Mutant: the score70 grant is made from a read-back score of 50.
PointsPlanLowBar(rb) ==
    << [reason |-> "base", points |-> 10, cond |-> TRUE],
       [reason |-> "score70", points |-> 10, cond |-> rb >= 50],
       [reason |-> "score90", points |-> 20, cond |-> rb >= 90] >>

\* Mutant: the points loop walks its list from the highest grant down.
PointsPlanReversed(rb) ==
    << [reason |-> "score90", points |-> 20, cond |-> rb >= 90],
       [reason |-> "score70", points |-> 10, cond |-> rb >= 70],
       [reason |-> "base", points |-> 10, cond |-> TRUE] >>

\* The list the points loop walks, built from the score read back.
PointsPlan(rb) ==
    << [reason |-> "base", points |-> 10, cond |-> TRUE],
       [reason |-> "score70", points |-> 10, cond |-> rb >= 70],
       [reason |-> "score90", points |-> 20, cond |-> rb >= 90] >>

\* The points of a reason's ledger row.
PointsOf(reason) == IF reason = "score90" THEN 20 ELSE 10

\* The first entry at or after i whose cond holds (the loop's continue).
NextIdx(rb, i) ==
    LET ok == {j \in i..Len(PointsPlan(rb)) : PointsPlan(rb)[j].cond}
    IN  IF ok = {} THEN Len(PointsPlan(rb)) + 1
        ELSE CHOOSE j \in ok : \A k \in ok : j <= k

Max(a, b) == IF a >= b THEN a ELSE b

\* Mutant: a day without meals resets the current streak (the behaviour of
\* the superseded streak code).
StreakNewResetting(existing, day, has_any) ==
    LET last_active == IF existing # None THEN existing[1].last_active_date ELSE None
        cur == IF existing # None THEN existing[1].current_length ELSE 0
        best == IF existing # None THEN existing[1].best_length ELSE 0
        new_current ==
            IF has_any
            THEN IF last_active = Some(day - 1) THEN cur + 1
                 ELSE IF last_active = Some(day)
                      THEN (IF existing # None THEN cur ELSE 1)
                      ELSE 1
            ELSE 0
    IN  [current_length |-> new_current,
         best_length |-> IF has_any THEN Max(best, new_current) ELSE best,
         last_active_date |-> IF has_any THEN Some(day) ELSE last_active]

\* Mutant: best_length is not raised to the new current_length.
StreakNewStaleBest(existing, day, has_any) ==
    LET last_active == IF existing # None THEN existing[1].last_active_date ELSE None
        cur == IF existing # None THEN existing[1].current_length ELSE 0
        best == IF existing # None THEN existing[1].best_length ELSE 0
        new_current ==
            IF has_any
            THEN IF last_active = Some(day - 1) THEN cur + 1
                 ELSE IF last_active = Some(day)
                      THEN (IF existing # None THEN cur ELSE 1)
                      ELSE 1
            ELSE cur
    IN  [current_length |-> new_current,
         best_length |-> IF existing # None THEN best ELSE new_current,
         last_active_date |-> IF has_any THEN Some(day) ELSE last_active]

\* Mutant: a meal on the day after the last active day restarts the streak
\* at 1 instead of extending it.
StreakNewRestarting(existing, day, has_any) ==
    LET last_active == IF existing # None THEN existing[1].last_active_date ELSE None
        cur == IF existing # None THEN existing[1].current_length ELSE 0
        best == IF existing # None THEN existing[1].best_length ELSE 0
        new_current ==
            IF has_any
            THEN IF last_active = Some(day)
                 THEN (IF existing # None THEN cur ELSE 1)
                 ELSE 1
            ELSE cur
        new_best == IF has_any THEN Max(best, new_current) ELSE best
    IN  [current_length |-> new_current,
         best_length |-> new_best,
         last_active_date |-> IF has_any THEN Some(day) ELSE last_active]

\* Mutant: a recompute of the last active day counts it once more.
StreakNewRecounting(existing, day, has_any) ==
    LET last_active == IF existing # None THEN existing[1].last_active_date ELSE None
        cur == IF existing # None THEN existing[1].current_length ELSE 0
        best == IF existing # None THEN existing[1].best_length ELSE 0
        new_current ==
            IF has_any
            THEN IF last_active = Some(day - 1) \/ last_active = Some(day) THEN cur + 1
                 ELSE 1
            ELSE cur
        new_best == IF has_any THEN Max(best, new_current) ELSE best
    IN  [current_length |-> new_current,
         best_length |-> new_best,
         last_active_date |-> IF has_any THEN Some(day) ELSE last_active]

\* "Determine new values" of the streak block: existing is the row read (or
\* None), the result the three columns the upsert writes.
StreakNew(existing, day, has_any) ==
    LET last_active == IF existing # None THEN existing[1].last_active_date ELSE None
        cur == IF existing # None THEN existing[1].current_length ELSE 0
        best == IF existing # None THEN existing[1].best_length ELSE 0
        new_current ==
            IF has_any
            THEN IF last_active = Some(day - 1) THEN cur + 1
                 ELSE IF last_active = Some(day)
                      THEN (IF existing # None THEN cur ELSE 1)
                      ELSE 1
            ELSE cur
        new_best == IF has_any THEN Max(best, new_current) ELSE best
    IN  [current_length |-> new_current,
         best_length |-> new_best,
         last_active_date |-> IF has_any THEN Some(day) ELSE last_active]

(***************************************************************************)
(* Locals of one recompute_for_day call, and what it returns.              *)
(***************************************************************************)
\* The schedules whose calls the history variable hist records.
Recorded == sched \in {"serial", "week"}

Tables == [ds |-> gam_daily_score, ledger |-> gam_points_ledger, streak |-> gam_streak]

NewCall(user, child, day, clean) ==
    [user |-> user, child |-> child, day |-> day,
     clean |-> clean,           \* history: no meal changed since the last call
     has_any |-> FALSE,
     found |-> FALSE,           \* history: the child lookup found a row
     daily |-> [score |-> 0, components |-> <<>>],
     existing_ds |-> None,
     rb |-> None,
     idx |-> 0,
     points_awarded |-> 0,
     attempted |-> {},          \* history: reasons whose insert was executed
     granted |-> {},            \* history: reasons whose insert made a row
     existing |-> None,
     failed |-> {},             \* history: statements that raised
     route |-> None,            \* the request of the routes schedules
     pre |-> IF Recorded THEN Some(Tables) ELSE None]

Idle ==
    [user |-> "u1", child |-> "c1", day |-> 1, clean |-> FALSE, has_any |-> FALSE,
     found |-> FALSE, daily |-> [score |-> 0, components |-> <<>>],
     existing_ds |-> None, rb |-> None, idx |-> 0, points_awarded |-> 0,
     attempted |-> {}, granted |-> {}, existing |-> None, failed |-> {},
     route |-> None, pre |-> None]

\* Locals of one maybe_award_badges call: the badge block it is at, the
\* UserBadge rows added to its session and not yet committed, whether it
\* ended in an exception; created and outage are history.
AwardIdle ==
    [pc |-> "idle", daily_score |-> 0, streak |-> [current |-> 0, best |-> 0],
     idx |-> 1, pending |-> {}, raised |-> FALSE, created |-> {}, outage |-> {}]

\* recompute_for_day ended by an exception (UnboundLocalError on
\* new_current, or the has_any query raising).
Raised ==
    [raised |-> TRUE, score |-> 0, components |-> <<>>,
     streak |-> [current |-> 0, best |-> 0], points_awarded_today |-> 0]

\* The return statement, with new the values of new_current and new_best.
Returned(st, new) ==
    [raised |-> FALSE, score |-> st.daily.score, components |-> st.daily.components,
     streak |-> [current |-> IF st.has_any THEN new.current_length ELSE 0,
                 best |-> IF st.has_any THEN new.best_length ELSE 0],
     points_awarded_today |-> st.points_awarded]

InCall(q) == pc[q] \notin {"idle", "has_any"}

\* The call of handler p ends with locals st, return value out and the
\* streak table as newStreak.
Finish(p, st, out, newStreak) ==
    /\ pc' = [pc EXCEPT ![p] = IF st.route = None THEN "idle" ELSE "route"]
    /\ loc' = [loc EXCEPT ![p] =
            IF st.route = None THEN Idle
            ELSE [Idle EXCEPT !.route = Some([st.route[1] EXCEPT
                        !.done = IF out.raised THEN @ ELSE @ \cup {st.day},
                        !.out = Some(out)])]]
    /\ result' = [result EXCEPT ![p] =
            IF st.route # None THEN None ELSE
            Some([user |-> st.user, child |-> st.child, day |-> st.day,
                  has_any |-> st.has_any, found |-> st.found, daily |-> st.daily,
                  rb |-> st.rb, attempted |-> st.attempted, granted |-> st.granted,
                  failed |-> st.failed, out |-> out])]
    /\ hist' = IF Recorded
               THEN [prev |-> IF hist.last = None THEN None
                              ELSE Some([hist.last[1] EXCEPT !.pre = None]),
                     last |-> Some([user |-> st.user, child |-> st.child,
                                    day |-> st.day, clean |-> st.clean,
                                    has_any |-> st.has_any, found |-> st.found,
                                    failed |-> st.failed, out |-> out,
                                    pre |-> st.pre[1],
                                    post |-> [ds |-> gam_daily_score,
                                              ledger |-> gam_points_ledger,
                                              streak |-> newStreak]])]
               ELSE hist
    /\ reported' = IF sched = "ledger" /\ ~out.raised
                   THEN [reported EXCEPT ![st.day] = @ + out.points_awarded_today]
                   ELSE reported

FailChoices ==
    IF sched \in {"faulty", "routes_faulty", "ledger"} /\ fails < MaxFail
    THEN BOOLEAN ELSE {FALSE}

\* The statements a schedule lets raise: under the ledger schedule only the
\* ledger insert of the points loop.
FailsAt(step) ==
    IF sched = "ledger" /\ step # "points" THEN {FALSE} ELSE FailChoices

Fail(st, fail, step) ==
    IF fail THEN [st EXCEPT !.failed = @ \cup {step}] ELSE st

Count(fail) == IF fail THEN fails + 1 ELSE fails

(***************************************************************************)
(* Requests.  A request takes the first free handler; under the serial     *)
(* schedule it waits until no other request is being handled.              *)
(***************************************************************************)
CanStart(p) ==
    /\ pc[p] = "idle"
    /\ reqs < (CASE sched \in {"serial", "summary"} -> MaxReqs
                  [] sched = "week" -> MaxWeek + MaxExtra
                  [] sched \in {"routes_faulty", "badges"} -> MaxFaultyReqs
                  [] OTHER -> MaxRaceReqs)
    /\ p = "p1" \/ pc["p1"] # "idle"
    /\ sched \notin {"overlap", "ledger"} => \A q \in Procs : pc[q] = "idle"
    /\ \A q \in Procs : award[q].pc \in {"idle", "done"}

StartCall(p, user, child, day, clean) ==
    /\ pc' = [pc EXCEPT ![p] = "has_any"]
    /\ loc' = [loc EXCEPT ![p] = NewCall(user, child, day, clean)]
    /\ result' = [result EXCEPT ![p] = None]
    /\ reqs' = reqs + 1

\* POST /meals/log: create_meal (404 unless the child is the caller's)
\* commits the meal, then the route calls recompute_for_day for its day.
LogMeal(p, user, child, day, kind) ==
    /\ CanStart(p)
    /\ ChildOf(user, child) # None
    /\ meals' = meals \cup {[id |-> meal_seq + 1, user_id |-> user,
                             child_id |-> child, day |-> day, kind |-> kind]}
    /\ meal_seq' = meal_seq + 1
    /\ StartCall(p, user, child, day, FALSE)
    /\ UNCHANGED <<sched, badges, award, award_calls, user_badges, reported, children, gam_daily_score, gam_points_ledger, gam_streak,
                   fails, epoch, hist, calc>>

\* DELETE /meals/{id}: the caller's meal is deleted and committed, then the
\* route calls recompute_for_day for the day it was on.
DeleteMeal(p, m) ==
    /\ CanStart(p)
    /\ m \in meals
    /\ meals' = meals \ {m}
    /\ StartCall(p, m.user_id, m.child_id, m.day, FALSE)
    /\ UNCHANGED <<sched, badges, award, award_calls, user_badges, reported, children, meal_seq, gam_daily_score, gam_points_ledger,
                   gam_streak, fails, epoch, hist, calc>>

\* recompute_for_day called with no meal change before it (the summary
\* route's compute-if-missing, or any caller of the entry point).
Recompute(p, user, child, day) ==
    /\ CanStart(p)
    /\ <<user, child>> \in Callers
    /\ StartCall(p, user, child, day, TRUE)
    /\ UNCHANGED <<sched, badges, award, award_calls, user_badges, reported, children, meals, meal_seq, gam_daily_score,
                   gam_points_ledger, gam_streak, fails, epoch, hist, calc>>

(***************************************************************************)
(* recompute_for_day, one action per database statement.  fail: the        *)
(* statement raises.                                                       *)
(***************************************************************************)

\* "Active-day detection": the has_any query, outside every try block.
HasAny(p, fail) ==
    /\ pc[p] = "has_any"
    /\ fails' = Count(fail)
    /\ IF fail
       THEN /\ Finish(p, Fail(loc[p], fail, "has_any"), Raised, gam_streak)
            /\ UNCHANGED epoch
       ELSE LET st == loc[p]
                c == [user |-> st.user, child |-> st.child, day |-> st.day,
                      has_any |-> HasAnyMeal(st.user, st.child, st.day)]
            IN  /\ loc' = [loc EXCEPT ![p] = [st EXCEPT !.has_any = c.has_any]]
                /\ pc' = [pc EXCEPT ![p] = "compute"]
                /\ epoch' = IF \A q \in Procs \ {p} : ~InCall(q)
                            THEN [s0 |-> gam_streak, calls |-> <<c>>, ok |-> TRUE]
                            ELSE [epoch EXCEPT !.calls = Append(@, c)]
                /\ UNCHANGED <<result, hist, reported>>
    /\ UNCHANGED <<sched, badges, award, award_calls, user_badges, children, meals, meal_seq, gam_daily_score,
                   gam_points_ledger, gam_streak, reqs, calc>>

\* compute_daily_score up to the score: child lookup (ValueError when it
\* finds none), targets, totals, the weights loop.  An exception leaves
\* daily = {"score": 0, "components": {}}.
Compute(p, fail) ==
    /\ pc[p] = "compute"
    /\ fails' = Count(fail)
    /\ LET st == Fail(loc[p], fail, "compute")
           ch == ChildOf(st.user, st.child)
       IN  IF fail \/ ch = None
           THEN /\ loc' = [loc EXCEPT ![p] = [st EXCEPT !.found = ch # None]]
                /\ pc' = [pc EXCEPT ![p] = "upsert"]
           ELSE /\ loc' = [loc EXCEPT ![p] =
                        [st EXCEPT !.found = TRUE,
                                   !.daily = ScoreOf(targets_for_age_region(ch[1].age_months),
                                                     totals_for_day(st.user, st.child, st.day))]]
                /\ pc' = [pc EXCEPT ![p] = "ds_read"]
    /\ epoch' = IF fail THEN [epoch EXCEPT !.ok = FALSE] ELSE epoch
    /\ UNCHANGED <<sched, badges, award, award_calls, user_badges, reported, children, meals, meal_seq, gam_daily_score,
                   gam_points_ledger, gam_streak, result, reqs, hist, calc>>

\* compute_daily_score: the SELECT of the existing GamDailyScore row.  A
\* SQLAlchemyError is caught there and the score is still returned.
DsRead(p, fail) ==
    /\ pc[p] = "ds_read"
    /\ fails' = Count(fail)
    /\ LET st == Fail(loc[p], fail, "ds_read")
           rows == gam_daily_score[<<st.user, st.child, st.day>>]
       IN  IF fail
           THEN /\ loc' = [loc EXCEPT ![p] = st]
                /\ pc' = [pc EXCEPT ![p] = "upsert"]
           ELSE /\ loc' = [loc EXCEPT ![p] =
                        [st EXCEPT !.existing_ds =
                            IF rows = <<>> THEN None ELSE Some(rows[1])]]
                /\ pc' = [pc EXCEPT ![p] = "ds_commit"]
    /\ epoch' = IF fail THEN [epoch EXCEPT !.ok = FALSE] ELSE epoch
    /\ UNCHANGED <<sched, badges, award, award_calls, user_badges, reported, children, meals, meal_seq, gam_daily_score,
                   gam_points_ledger, gam_streak, result, reqs, hist, calc>>

\* compute_daily_score: db.commit() flushing the row added or changed.
DsCommit(p, fail) ==
    /\ pc[p] = "ds_commit"
    /\ fails' = Count(fail)
    /\ LET st == Fail(loc[p], fail, "ds_commit")
           key == <<st.user, st.child, st.day>>
       IN  /\ gam_daily_score' =
                IF fail \/ ~ForeignKeyOk(st.child) THEN gam_daily_score
                ELSE [gam_daily_score EXCEPT ![key] =
                        OrmFlushScore(@, st.existing_ds, st.daily)]
           /\ loc' = [loc EXCEPT ![p] = st]
           /\ pc' = [pc EXCEPT ![p] = "upsert"]
    /\ epoch' = IF fail THEN [epoch EXCEPT !.ok = FALSE] ELSE epoch
    /\ UNCHANGED <<sched, badges, award, award_calls, user_badges, reported, children, meals, meal_seq, gam_points_ledger, gam_streak,
                   result, reqs, hist, calc>>

\* "Upsert daily score (Core UPSERT)": execute and commit.  An exception
\* (a raised statement, the foreign key) sets rb = 0.
Upsert(p, fail) ==
    /\ pc[p] = "upsert"
    /\ fails' = Count(fail)
    /\ LET st == Fail(loc[p], fail, "upsert")
           key == <<st.user, st.child, st.day>>
       IN  IF fail \/ ~ForeignKeyOk(st.child)
           THEN /\ loc' = [loc EXCEPT ![p] = [st EXCEPT !.rb = Some(0), !.idx = 1]]
                /\ pc' = [pc EXCEPT ![p] = "points"]
                /\ UNCHANGED gam_daily_score
           ELSE /\ gam_daily_score' =
                    [gam_daily_score EXCEPT ![key] = UpsertScore(@, st.daily.score)]
                /\ loc' = [loc EXCEPT ![p] = st]
                /\ pc' = [pc EXCEPT ![p] = "readback"]
    /\ epoch' = IF fail THEN [epoch EXCEPT !.ok = FALSE] ELSE epoch
    /\ UNCHANGED <<sched, badges, award, award_calls, user_badges, reported, children, meals, meal_seq, gam_points_ledger, gam_streak,
                   result, reqs, hist, calc>>

\* The read-back of the persisted score into rb, in the same try block.
\* No row gives rb = None, and building the points list then raises
\* TypeError, which skips the points loop.
Readback(p, fail) ==
    /\ pc[p] = "readback"
    /\ fails' = Count(fail)
    /\ LET st == Fail(loc[p], fail, "readback")
           rows == gam_daily_score[<<st.user, st.child, st.day>>]
           rb == IF fail THEN Some(0)
                 ELSE IF rows = <<>> THEN None ELSE Some(rows[1].score)
       IN  /\ loc' = [loc EXCEPT ![p] = [st EXCEPT !.rb = rb, !.idx = 1]]
           /\ pc' = [pc EXCEPT ![p] = IF rb = None THEN "streak_read" ELSE "points"]
    /\ epoch' = IF fail THEN [epoch EXCEPT !.ok = FALSE] ELSE epoch
    /\ UNCHANGED <<sched, badges, award, award_calls, user_badges, reported, children, meals, meal_seq, gam_daily_score,
                   gam_points_ledger, gam_streak, result, reqs, hist, calc>>

\* One pass of the points loop whose cond holds: the conflict-ignoring
\* insert and its commit.  An exception ends the loop.
PointsInsert(p, fail) ==
    /\ pc[p] = "points"
    /\ fails' = Count(fail)
    /\ LET st == Fail(loc[p], fail, "points")
           e == PointsPlan(st.rb[1])[st.idx]
           key == <<st.user, st.child, st.day, e.reason>>
           rows == gam_points_ledger[key]
           got == InsertIgnoreCount(rows) # 0
           nxt == NextIdx(st.rb[1], st.idx + 1)
       IN  IF fail \/ ~ForeignKeyOk(st.child)
           THEN /\ loc' = [loc EXCEPT ![p] =
                        [st EXCEPT !.attempted = @ \cup {e.reason}]]
                /\ pc' = [pc EXCEPT ![p] = "streak_read"]
                /\ UNCHANGED gam_points_ledger
           ELSE /\ gam_points_ledger' =
                    [gam_points_ledger EXCEPT ![key] = InsertIgnore(@, e.points)]
                /\ loc' = [loc EXCEPT ![p] =
                        [st EXCEPT !.attempted = @ \cup {e.reason},
                                   !.granted = IF got THEN @ \cup {e.reason} ELSE @,
                                   !.points_awarded = IF got THEN @ + e.points ELSE @,
                                   !.idx = nxt]]
                /\ pc' = [pc EXCEPT ![p] =
                        IF nxt > Len(PointsPlan(st.rb[1])) THEN "streak_read" ELSE "points"]
    /\ epoch' = IF fail THEN [epoch EXCEPT !.ok = FALSE] ELSE epoch
    /\ UNCHANGED <<sched, badges, award, award_calls, user_badges, reported, children, meals, meal_seq, gam_daily_score, gam_streak,
                   result, reqs, hist, calc>>

\* "Streak upsert": the SELECT of the existing GamStreak row.  When it
\* raises, new_current and new_best stay unbound and the return statement
\* reads them if has_any.  (The points read-back before it only logs.)
StreakRead(p, fail) ==
    /\ pc[p] = "streak_read"
    /\ fails' = Count(fail)
    /\ LET st == Fail(loc[p], fail, "streak_read")
           rows == gam_streak[<<st.user, st.child>>]
       IN  IF fail
           THEN Finish(p, st,
                       IF st.has_any THEN Raised
                       ELSE Returned(st, [current_length |-> 0, best_length |-> 0]),
                       gam_streak)
           ELSE /\ loc' = [loc EXCEPT ![p] =
                        [st EXCEPT !.existing = IF rows = <<>> THEN None ELSE Some(rows[1])]]
                /\ pc' = [pc EXCEPT ![p] = "streak_upsert"]
                /\ UNCHANGED <<result, hist, reported>>
    /\ epoch' = IF fail THEN [epoch EXCEPT !.ok = FALSE] ELSE epoch
    /\ UNCHANGED <<sched, badges, award, award_calls, user_badges, children, meals, meal_seq, gam_daily_score,
                   gam_points_ledger, gam_streak, reqs, calc>>

\* The streak upsert from the row read, its commit, and the return.  (The
\* streak read-back after it only logs.)
StreakUpsert(p, fail) ==
    /\ pc[p] = "streak_upsert"
    /\ fails' = Count(fail)
    /\ LET st == Fail(loc[p], fail, "streak_upsert")
           key == <<st.user, st.child>>
           new == StreakNew(st.existing, st.day, st.has_any)
           newStreak == IF fail \/ ~ForeignKeyOk(st.child) THEN gam_streak
                        ELSE [gam_streak EXCEPT ![key] = UpsertStreak(@, new)]
       IN  /\ gam_streak' = newStreak
           /\ Finish(p, st, Returned(st, new), newStreak)
    /\ epoch' = IF fail THEN [epoch EXCEPT !.ok = FALSE] ELSE epoch
    /\ UNCHANGED <<sched, badges, award, award_calls, user_badges, children, meals, meal_seq, gam_daily_score,
                   gam_points_ledger, reqs, calc>>

(***************************************************************************)
(* The routes schedules: whole requests of POST /meals/log, PATCH and      *)
(* DELETE /meals/{id}, POST /meals/batch-sync and GET                      *)
(* /gamification/summary/{child_id}.  route holds the request's locals:    *)
(* todo and items are the days and the batch items still to handle, called *)
(* and done the days recompute_for_day was called for and returned for,    *)
(* out what its last call returned; affected, committed (the meals table   *)
(* as the request committed it) and pre are history.                       *)
(***************************************************************************)
\* The tables as hist records them (under the routes schedule only).
Snapshot == IF sched \in {"routes", "summary"} THEN Some(Tables) ELSE None

NewRoute(kind, day, affected, todo, items, committed) ==
    [kind |-> kind, day |-> day, affected |-> affected, todo |-> todo,
     items |-> items, called |-> {}, done |-> {}, out |-> None,
     committed |-> committed, pre |-> Snapshot]

StartRoute(p, day, r) ==
    /\ pc' = [pc EXCEPT ![p] = "has_any"]
    /\ loc' = [loc EXCEPT ![p] =
            [NewCall("u1", "c1", day, FALSE) EXCEPT
                !.route = Some([r EXCEPT !.called = @ \cup {day}])]]
    /\ result' = [result EXCEPT ![p] = None]

\* Mutant: a route without the try/except around recompute_for_day.
RouteUncaught(kind, raised) == IF raised THEN "error" ELSE "ok"

\* What the request reports: every route wraps its recompute_for_day calls
\* in try/except Exception and goes on to return its response.
RouteOutcome(kind, raised) == "ok"

\* The daily_score a summary read returns after its recompute.
ComputedPayload(out) ==
    IF out.raised THEN [score |-> 0, components |-> <<>>]
    ELSE [score |-> out.score, components |-> out.components]

\* The summary's reads after daily_score: points_today from the ledger rows
\* of the day, the streak from the GamStreak row (0 and 0 without one).
SummaryReads(day) ==
    LET row == gam_streak[<<"u1", "c1">>]
        Pts(reason) == IF gam_points_ledger[<<"u1", "c1", day, reason>>] = <<>> THEN 0
                       ELSE gam_points_ledger[<<"u1", "c1", day, reason>>][1]
    IN  [points_today |-> Pts("base") + Pts("score70") + Pts("score90"),
         streak |-> [current |-> IF row = <<>> THEN 0 ELSE row[1].current_length,
                     best |-> IF row = <<>> THEN 0 ELSE row[1].best_length]]

\* The record hist keeps of a completed request.
RequestDone(r, recomputed, payload, post) ==
    [kind |-> r.kind, day |-> r.day, affected |-> r.affected, called |-> r.called,
     done |-> r.done, recomputed |-> recomputed, payload |-> payload,
     summary |-> IF r.kind = "read" /\ post # None
                 THEN Some(SummaryReads(r.day)) ELSE None,
     status |-> RouteOutcome(r.kind, r.out # None /\ r.out[1].raised),
     committed |-> r.committed, meals |-> meals, pre |-> r.pre, post |-> post]

\* hist after a request: the last two under the routes schedule, the last
\* one under the faulty one.
Completed(entry) ==
    [prev |-> IF sched \in {"routes", "summary"} THEN hist.last ELSE None,
     last |-> Some(entry)]

NewMeal(day, kind) ==
    [id |-> meal_seq + 1, user_id |-> "u1", child_id |-> "c1", day |-> day, kind |-> kind]

\* POST /meals/log.
RLog(p, day, kind) ==
    /\ CanStart(p)
    /\ meals' = meals \cup {NewMeal(day, kind)}
    /\ meal_seq' = meal_seq + 1
    /\ reqs' = reqs + 1
    /\ StartRoute(p, day, NewRoute("log", day, {day}, <<>>, <<>>, meals'))
    /\ UNCHANGED <<sched, badges, award, award_calls, user_badges, reported, children, gam_daily_score, gam_points_ledger,
                   gam_streak, fails, epoch, hist, calc>>

\* PATCH /meals/{id}: the patch (of meal_time, which the meal_date trigger
\* follows, or of a field that leaves the day alone) is committed, then
\* old_day is recomputed and, if it differs, new_day; both calls sit in one
\* try block.
REdit(p, m, new_day) ==
    /\ CanStart(p)
    /\ m \in meals
    /\ meals' = (meals \ {m}) \cup {[m EXCEPT !.day = new_day]}
    /\ reqs' = reqs + 1
    /\ StartRoute(p, m.day,
                  NewRoute("edit", m.day, {m.day, new_day},
                           IF new_day # m.day THEN <<new_day>> ELSE <<>>, <<>>, meals'))
    /\ UNCHANGED <<sched, badges, award, award_calls, user_badges, reported, children, meal_seq, gam_daily_score,
                   gam_points_ledger, gam_streak, fails, epoch, hist, calc>>

\* DELETE /meals/{id}.
RDelete(p, m) ==
    /\ CanStart(p)
    /\ m \in meals
    /\ meals' = meals \ {m}
    /\ reqs' = reqs + 1
    /\ StartRoute(p, m.day, NewRoute("delete", m.day, {m.day}, <<>>, <<>>, meals'))
    /\ UNCHANGED <<sched, badges, award, award_calls, user_badges, reported, children, meal_seq, gam_daily_score,
                   gam_points_ledger, gam_streak, fails, epoch, hist, calc>>

\* POST /meals/batch-sync with two meals: the first is created and its day
\* recomputed; the second follows in RouteNext.
RBatch(p, d1, d2) ==
    /\ CanStart(p)
    /\ meals' = meals \cup {NewMeal(d1, "most")}
    /\ meal_seq' = meal_seq + 1
    /\ reqs' = reqs + 1
    /\ StartRoute(p, d1, NewRoute("batch", d1, {d1, d2}, <<>>, <<d2>>, meals'))
    /\ UNCHANGED <<sched, badges, award, award_calls, user_badges, reported, children, gam_daily_score, gam_points_ledger,
                   gam_streak, fails, epoch, hist, calc>>

\* Mutant: a summary that never looks at the persisted row.
score_payload_skipped(rows, fail) == None

\* The score_payload the summary takes from the DailyScore table: that of
\* the row, or none when there is no row or the SELECT raised.
score_payload(rows, fail) ==
    IF ~fail /\ rows # <<>>
    THEN Some([score |-> rows[1].score, components |-> rows[1].components])
    ELSE None

\* GET /gamification/summary: the persisted DailyScore row is the answer
\* when the SELECT finds one; when it finds none, or raises SQLAlchemyError,
\* recompute_for_day is called.  The points and streak queries after it
\* only read.
RSummary(p, day, fail) ==
    /\ CanStart(p)
    /\ reqs' = reqs + 1
    /\ fails' = Count(fail)
    /\ LET rows == gam_daily_score[<<"u1", "c1", day>>]
           r == NewRoute("read", day, {}, <<>>, <<>>, meals)
       IN  IF score_payload(rows, fail) # None
           THEN /\ hist' = Completed(RequestDone(r, FALSE,
                                        score_payload(rows, fail)[1], Snapshot))
                /\ UNCHANGED <<pc, loc, result>>
           ELSE /\ StartRoute(p, day, r)
                /\ UNCHANGED hist
    /\ UNCHANGED <<sched, badges, award, award_calls, user_badges, reported, children, meals, meal_seq, gam_daily_score,
                   gam_points_ledger, gam_streak, epoch, calc>>

\* After a call that returned: the second recompute of an edit.  After a
\* call of a batch item, returned or raised (each item has its own try
\* block): the next item is created and its day recomputed.
RouteNext(p) ==
    /\ pc[p] = "route"
    /\ LET r == loc[p].route[1]
       IN  \/ /\ r.todo # <<>> /\ ~r.out[1].raised
              /\ StartRoute(p, r.todo[1], [r EXCEPT !.todo = Tail(@)])
              /\ UNCHANGED <<meals, meal_seq>>
           \/ /\ r.items # <<>>
              /\ meals' = meals \cup {NewMeal(r.items[1], "most")}
              /\ meal_seq' = meal_seq + 1
              /\ StartRoute(p, r.items[1],
                            [r EXCEPT !.items = Tail(@), !.committed = meals'])
    /\ UNCHANGED <<sched, badges, award, award_calls, user_badges, reported, children, gam_daily_score, gam_points_ledger,
                   gam_streak, reqs, fails, epoch, hist, calc>>

\* The request returns its response.
RouteRespond(p) ==
    /\ pc[p] = "route"
    /\ LET r == loc[p].route[1]
       IN  /\ r.items = <<>>
           /\ r.todo = <<>> \/ r.out[1].raised
           /\ hist' = Completed(RequestDone(r, TRUE, ComputedPayload(r.out[1]),
                                            Snapshot))
    /\ pc' = [pc EXCEPT ![p] = "idle"]
    /\ loc' = [loc EXCEPT ![p] = Idle]
    /\ UNCHANGED <<sched, badges, award, award_calls, user_badges, reported, children, meals, meal_seq, gam_daily_score,
                   gam_points_ledger, gam_streak, result, reqs, fails, epoch, calc>>

(***************************************************************************)
(* The week schedule: a meal is logged on the day after the last day that  *)
(* has one, or the last day is recomputed again.                           *)
(***************************************************************************)
LastDay ==
    IF meals = {} THEN 0
    ELSE CHOOSE d \in {m.day : m \in meals} : \A m \in meals : m.day <= d

WeekLog(p, kind) ==
    /\ LastDay < MaxWeek
    /\ LogMeal(p, "u1", "c1", LastDay + 1, kind)

WeekAgain(p) ==
    /\ LastDay >= 1
    /\ reqs - meal_seq < MaxExtra
    /\ Recompute(p, "u1", "c1", LastDay)

(***************************************************************************)
(* Badge evaluation and child deletion (the badges schedule).              *)
(* maybe_award_badges has no caller in the repository; the schedule calls  *)
(* it as its signature allows, for the owner's child, with a daily_score   *)
(* and a streak drawn from AwardScores and AwardStreaks.  The query and    *)
(* the insert of _get_or_create_badge are taken as one step.               *)
(***************************************************************************)
BadgeOrder == <<"starter_chef", "seven_day_strong", "perfect_day">>

AwardScores == {50, 95}
AwardStreaks == {[current |-> 1, best |-> 1], [current |-> SevenDays, best |-> SevenDays]}

\* What a badge step may find unavailable: nothing, the badges table (the
\* catalog), the user_badges table (the grant store).
Outages == {"none", "catalog", "grants"}

\* The condition maybe_award_badges puts on each badge.
BadgeCond(name, daily_score, streak) ==
    CASE name = "starter_chef" ->
            /\ \E m \in meals : m.user_id = "u1" /\ m.child_id = "c1"
            /\ streak.current = 1
      [] name = "seven_day_strong" -> streak.best >= SevenDays
      [] OTHER -> daily_score >= 90

\* The locals a finished call leaves behind: how it ended and its history.
AwardDone(a, raised) ==
    [AwardIdle EXCEPT !.pc = "done", !.raised = raised, !.created = a.created,
                      !.outage = a.outage]

\* The session's pending UserBadge rows become rows of the table.
CommitGrants(t, pending) ==
    [t EXCEPT !["u1"] = [b \in BadgeNames |-> IF b \in pending THEN @[b] + 1 ELSE @[b]]]

\* A call of maybe_award_badges starts, for a child that exists, while no
\* recompute_for_day is running.
AwardStart(p, daily_score, streak) ==
    /\ award[p].pc \in {"idle", "done"}
    /\ award_calls < MaxAwards
    /\ \A q \in Procs : pc[q] = "idle"
    /\ ChildOf("u1", "c1") # None
    /\ award' = [award EXCEPT ![p] =
            [AwardIdle EXCEPT !.pc = "badge", !.daily_score = daily_score,
                              !.streak = streak]]
    /\ award_calls' = award_calls + 1
    /\ UNCHANGED <<sched, badges, user_badges, reported, children, meals, meal_seq,
                   gam_daily_score, gam_points_ledger, gam_streak, pc, loc, result,
                   reqs, fails, epoch, hist, calc>>

\* One of the three badge blocks of maybe_award_badges.  When its condition
\* holds, _get_or_create_badge looks the Badge row up by name: a
\* SQLAlchemyError there is rolled back and gives a stub without id, which
\* skips the grant; a missing row is added and committed (with whatever the
\* session holds), and the debug call after the commit then reads the
\* undefined name child_id: the NameError passes through both functions to
\* the caller.  With the row in hand the UserBadge row is looked up (a
\* SQLAlchemyError ends the call in its except block) and added to the
\* session when there is none.
maybe_award_badges(p, outage) ==
    /\ award[p].pc = "badge"
    /\ LET a == award[p]
           name == BadgeOrder[a.idx]
           next == IF a.idx = Len(BadgeOrder) THEN "commit" ELSE "badge"
           seen == [a EXCEPT !.outage = @ \cup ({outage} \ {"none"})]
       IN  IF ~BadgeCond(name, a.daily_score, a.streak)
           THEN /\ award' = [award EXCEPT ![p] = [a EXCEPT !.idx = @ + 1, !.pc = next]]
                /\ UNCHANGED <<badges, user_badges>>
           ELSE IF outage = "catalog"
           THEN /\ award' = [award EXCEPT ![p] =
                        [seen EXCEPT !.idx = @ + 1, !.pc = next, !.pending = {}]]
                /\ UNCHANGED <<badges, user_badges>>
           ELSE IF ~badges[name]
           THEN /\ badges' = [badges EXCEPT ![name] = TRUE]
                /\ user_badges' = CommitGrants(user_badges, a.pending)
                /\ award' = [award EXCEPT ![p] =
                        AwardDone([seen EXCEPT !.created = @ \cup {name}], TRUE)]
           ELSE IF outage = "grants"
           THEN /\ award' = [award EXCEPT ![p] = AwardDone(seen, FALSE)]
                /\ UNCHANGED <<badges, user_badges>>
           ELSE /\ award' = [award EXCEPT ![p] =
                        [a EXCEPT !.idx = @ + 1, !.pc = next,
                                  !.pending = IF user_badges["u1"][name] = 0
                                              THEN @ \cup {name} ELSE @]]
                /\ UNCHANGED <<badges, user_badges>>
    /\ UNCHANGED <<sched, award_calls, reported, children, meals, meal_seq,
                   gam_daily_score, gam_points_ledger, gam_streak, pc, loc, result,
                   reqs, fails, epoch, hist, calc>>

\* The db.commit() that ends maybe_award_badges; a SQLAlchemyError is
\* rolled back and the call returns.
AwardCommit(p, outage) ==
    /\ award[p].pc = "commit"
    /\ outage # "catalog"
    /\ user_badges' = IF outage = "grants" THEN user_badges
                      ELSE CommitGrants(user_badges, award[p].pending)
    /\ award' = [award EXCEPT ![p] =
            AwardDone([@ EXCEPT !.outage = @ \cup ({outage} \ {"none"})], FALSE)]
    /\ UNCHANGED <<sched, badges, award_calls, reported, children, meals, meal_seq,
                   gam_daily_score, gam_points_ledger, gam_streak, pc, loc, result,
                   reqs, fails, epoch, hist, calc>>

\* DELETE /children/{child_id}: the ORM deletes the child's meals with it,
\* and the ON DELETE CASCADE of the child_id foreign keys removes its
\* gam_daily_score, gam_points_ledger and gam_streak rows.  user_badges has
\* no child_id column.
delete_child(child) ==
    /\ ChildOf("u1", child) # None
    /\ children' = [children EXCEPT ![child] = <<>>]
    /\ meals' = {m \in meals : m.child_id # child}
    /\ gam_daily_score' = [k \in DsKeys |-> IF k[2] = child THEN <<>> ELSE gam_daily_score[k]]
    /\ gam_points_ledger' =
            [k \in LedgerKeys |-> IF k[2] = child THEN <<>> ELSE gam_points_ledger[k]]
    /\ gam_streak' = [k \in StreakKeys |-> IF k[2] = child THEN <<>> ELSE gam_streak[k]]
    /\ UNCHANGED <<sched, badges, award, award_calls, user_badges, reported, meal_seq,
                   pc, loc, result, reqs, fails, epoch, hist, calc>>

(***************************************************************************)
(* The score calculator alone, on totals and an age drawn by InitScore.    *)
(***************************************************************************)
CalcScore ==
    /\ calc.out = None
    /\ calc' = [calc EXCEPT !.out =
                    Some(ScoreOf(targets_for_age_region(calc.age_months), calc.totals))]
    /\ UNCHANGED <<sched, badges, award, award_calls, user_badges, reported, children, meals, meal_seq, gam_daily_score,
                   gam_points_ledger, gam_streak, pc, loc, result, reqs, fails,
                   epoch, hist>>

(***************************************************************************)
(* Initial states and specifications.                                      *)
(***************************************************************************)
InitTables ==
    /\ children = [c \in ChildIds |->
                    IF c = "c1" THEN <<[user_id |-> "u1", age_months |-> 48]>> ELSE <<>>]
    /\ meals = {}
    /\ meal_seq = 0
    /\ gam_daily_score = [k \in DsKeys |-> <<>>]
    /\ gam_points_ledger = [k \in LedgerKeys |-> <<>>]
    /\ gam_streak = [k \in StreakKeys |-> <<>>]
    /\ user_badges = [u \in Users |-> [b \in BadgeNames |-> 0]]
    /\ badges = [b \in BadgeNames |-> FALSE]
    /\ award = [p \in Procs |-> AwardIdle]
    /\ award_calls = 0
    /\ reported = [d \in DayChoices |-> 0]
    /\ pc = [p \in Procs |-> "idle"]
    /\ loc = [p \in Procs |-> Idle]
    /\ result = [p \in Procs |-> None]
    /\ reqs = 0
    /\ fails = 0
    /\ epoch = [s0 |-> [k \in StreakKeys |-> <<>>], calls |-> <<>>, ok |-> TRUE]
    /\ hist = [prev |-> None, last |-> None]

NoCalc == [age_months |-> 0, totals |-> [k \in NutrientKeys |-> None], out |-> None]

Init ==
    /\ sched = "overlap"
    /\ InitTables
    /\ calc = NoCalc

InitSerial ==
    /\ sched = "serial"
    /\ InitTables
    /\ calc = NoCalc

InitFaulty ==
    /\ sched = "faulty"
    /\ InitTables
    /\ calc = NoCalc

\* Stored totals the calculator is tried on: absent, negative, zero, a
\* tie of round(), below and above every target.
ScoreVals == {None, Some(-100), Some(0), Some(5), Some(500), Some(2000)}

InitScore ==
    /\ sched = "serial"
    /\ InitTables
    /\ \E age \in {6, 24, 48} :
       \E t \in [{WeightKeys[i] : i \in 1..Len(WeightKeys)} -> ScoreVals] :
            calc = [age_months |-> age,
                    totals |-> [k \in NutrientKeys |->
                                    IF k \in DOMAIN t THEN t[k] ELSE None],
                    out |-> None]

Next ==
    \/ \E p \in Procs, d \in DayChoices, k \in MealKinds : LogMeal(p, "u1", "c1", d, k)
    \/ \E p \in Procs, m \in meals : DeleteMeal(p, m)
    \/ \E p \in Procs, uc \in Callers, d \in DayChoices : Recompute(p, uc[1], uc[2], d)
    \/ \E p \in Procs, fail \in FailsAt("has_any") : HasAny(p, fail)
    \/ \E p \in Procs, fail \in FailsAt("compute") : Compute(p, fail)
    \/ \E p \in Procs, fail \in FailsAt("ds_read") : DsRead(p, fail)
    \/ \E p \in Procs, fail \in FailsAt("ds_commit") : DsCommit(p, fail)
    \/ \E p \in Procs, fail \in FailsAt("upsert") : Upsert(p, fail)
    \/ \E p \in Procs, fail \in FailsAt("readback") : Readback(p, fail)
    \/ \E p \in Procs, fail \in FailsAt("points") : PointsInsert(p, fail)
    \/ \E p \in Procs, fail \in FailsAt("streak_read") : StreakRead(p, fail)
    \/ \E p \in Procs, fail \in FailsAt("streak_upsert") : StreakUpsert(p, fail)

Calls ==
    \/ \E p \in Procs, fail \in FailsAt("has_any") : HasAny(p, fail)
    \/ \E p \in Procs, fail \in FailsAt("compute") : Compute(p, fail)
    \/ \E p \in Procs, fail \in FailsAt("ds_read") : DsRead(p, fail)
    \/ \E p \in Procs, fail \in FailsAt("ds_commit") : DsCommit(p, fail)
    \/ \E p \in Procs, fail \in FailsAt("upsert") : Upsert(p, fail)
    \/ \E p \in Procs, fail \in FailsAt("readback") : Readback(p, fail)
    \/ \E p \in Procs, fail \in FailsAt("points") : PointsInsert(p, fail)
    \/ \E p \in Procs, fail \in FailsAt("streak_read") : StreakRead(p, fail)
    \/ \E p \in Procs, fail \in FailsAt("streak_upsert") : StreakUpsert(p, fail)

InitWeek ==
    /\ sched = "week"
    /\ InitTables
    /\ calc = NoCalc

NextWeek ==
    \/ \E p \in Procs, k \in WeekKinds : WeekLog(p, k)
    \/ \E p \in Procs : WeekAgain(p)
    \/ Calls

InitRoutes ==
    /\ sched = "routes"
    /\ InitTables
    /\ calc = NoCalc

\* The faulty routes schedule starts from the state one POST /meals/log of
\* a "most" meal on day 1 leaves behind when nothing fails.
SeedMeal == [id |-> 1, user_id |-> "u1", child_id |-> "c1", day |-> 1, kind |-> "most"]

SeedScore == ScoreOf(targets_for_age_region(48), Nutrients("most"))

InitRoutesFaulty ==
    /\ sched = "routes_faulty"
    /\ children = [c \in ChildIds |->
                    IF c = "c1" THEN <<[user_id |-> "u1", age_months |-> 48]>> ELSE <<>>]
    /\ meals = {SeedMeal}
    /\ meal_seq = 1
    /\ gam_daily_score = [k \in DsKeys |->
                            IF k = <<"u1", "c1", 1>> THEN <<SeedScore>> ELSE <<>>]
    /\ gam_points_ledger =
            [k \in LedgerKeys |->
                IF k[3] = 1 /\ \E i \in 1..3 : /\ PointsPlan(SeedScore.score)[i].reason = k[4]
                                               /\ PointsPlan(SeedScore.score)[i].cond
                THEN <<PointsOf(k[4])>> ELSE <<>>]
    /\ gam_streak = [k \in StreakKeys |-> <<StreakNew(None, 1, TRUE)>>]
    /\ user_badges = [u \in Users |-> [b \in BadgeNames |-> 0]]
    /\ badges = [b \in BadgeNames |-> FALSE]
    /\ award = [p \in Procs |-> AwardIdle]
    /\ award_calls = 0
    /\ reported = [d \in DayChoices |-> 0]
    /\ pc = [p \in Procs |-> "idle"]
    /\ loc = [p \in Procs |-> Idle]
    /\ result = [p \in Procs |-> None]
    /\ reqs = 0
    /\ fails = 0
    /\ epoch = [s0 |-> [k \in StreakKeys |-> <<>>], calls |-> <<>>, ok |-> TRUE]
    /\ hist = [prev |-> None, last |-> None]
    /\ calc = NoCalc

NextRoutes ==
    \/ \E p \in Procs, d \in DayChoices, k \in MealKinds : RLog(p, d, k)
    \/ \E p \in Procs, m \in meals, d \in DayChoices : REdit(p, m, d)
    \/ \E p \in Procs, m \in meals : RDelete(p, m)
    \/ \E p \in Procs, d1 \in DayChoices, d2 \in DayChoices : RBatch(p, d1, d2)
    \/ \E p \in Procs, d \in DayChoices, fail \in FailChoices : RSummary(p, d, fail)
    \/ \E p \in Procs : RouteNext(p)
    \/ \E p \in Procs : RouteRespond(p)
    \/ Calls

Spec == Init /\ [][Next]_vars

SpecRoutes == InitRoutes /\ [][NextRoutes]_vars

SpecRoutesFaulty == InitRoutesFaulty /\ [][NextRoutes]_vars

SpecWeek == InitWeek /\ [][NextWeek]_vars

\* The ledger schedule: overlapping requests on one day, and ledger inserts
\* that may raise.
InitLedger ==
    /\ sched = "ledger"
    /\ InitTables
    /\ calc = NoCalc

SpecLedger == InitLedger /\ [][Next]_vars

\* The summary schedule: meals logged and summaries read for one day, one
\* request at a time.
InitSummary ==
    /\ sched = "summary"
    /\ InitTables
    /\ calc = NoCalc

NextSummary ==
    \/ \E p \in Procs, d \in DayChoices, k \in MealKinds : RLog(p, d, k)
    \/ \E p \in Procs, d \in DayChoices : RSummary(p, d, FALSE)
    \/ \E p \in Procs : RouteRespond(p)
    \/ Calls

SpecSummary == InitSummary /\ [][NextSummary]_vars

\* The badges schedule: meals logged for one day, badge evaluations that
\* may overlap, and the deletion of the child.
InitBadges ==
    /\ sched = "badges"
    /\ InitTables
    /\ calc = NoCalc

NextBadges ==
    \/ \E p \in Procs, d \in DayChoices, k \in MealKinds : LogMeal(p, "u1", "c1", d, k)
    \/ \E p \in Procs, ds \in AwardScores, st \in AwardStreaks : AwardStart(p, ds, st)
    \/ \E p \in Procs, outage \in Outages : maybe_award_badges(p, outage)
    \/ \E p \in Procs, outage \in Outages : AwardCommit(p, outage)
    \/ delete_child("c1")
    \/ Calls

SpecBadges == InitBadges /\ [][NextBadges]_vars

SpecSerial == InitSerial /\ [][Next]_vars

SpecFaulty == InitFaulty /\ [][Next]_vars

SpecScore == InitScore /\ [][CalcScore]_vars

(***************************************************************************)
(* Properties.                                                             *)
(***************************************************************************)
LastCall == hist.last[1]
PrevCall == hist.prev[1]

SameKey(a, b) == a.user = b.user /\ a.child = b.child /\ a.day = b.day

LedgerOfDay(t, c) == [r \in Reasons |-> t.ledger[<<c.user, c.child, c.day, r>>]]

\* C1: two back-to-back recompute_for_day calls for the same (user, child,
\* date), with no meal change and no storage failure in between, return the
\* same score, components and streak and leave the same DailyScore and
\* Streak rows; the second returns points_awarded_today = 0 and adds no
\* ledger row.
C1_Idempotent ==
    (hist.prev # None /\ hist.last # None /\ SameKey(PrevCall, LastCall)
        /\ LastCall.clean /\ PrevCall.failed = {} /\ LastCall.failed = {})
    =>  /\ ~LastCall.out.raised /\ ~PrevCall.out.raised
        /\ LastCall.out.score = PrevCall.out.score
        /\ LastCall.out.components = PrevCall.out.components
        /\ LastCall.out.streak = PrevCall.out.streak
        /\ LastCall.post.ds = PrevCall.post.ds
        /\ LastCall.post.streak = PrevCall.post.streak
        /\ LastCall.out.points_awarded_today = 0
        /\ LedgerOfDay(LastCall.post, LastCall) = LedgerOfDay(PrevCall.post, PrevCall)

\* Reached: a day with meals that extended a streak to 2 and granted
\* points was recomputed a second time with nothing changed.
C1_Witness ==
    /\ hist.prev # None /\ hist.last # None
    /\ SameKey(PrevCall, LastCall) /\ LastCall.clean
    /\ PrevCall.has_any
    /\ PrevCall.out.points_awarded_today > 0
    /\ PrevCall.out.streak.current = 2

\* C2: the points ledger holds at most one row per (user, child, date,
\* reason), however recompute_for_day calls follow or interleave.
C2_LedgerUnique == \A k \in LedgerKeys : Len(gam_points_ledger[k]) <= 1

\* Reached: two calls in flight together have both executed the insert of
\* the same ledger key, and one of them met the other's row.
C2_Witness ==
    \E p \in Procs, q \in Procs :
        /\ p # q /\ InCall(p) /\ InCall(q)
        /\ SameKey(loc[p], loc[q])
        /\ "base" \in loc[p].granted
        /\ "base" \in loc[q].attempted \ loc[q].granted

ApplyStreak(rows, c) ==
    UpsertStreak(rows, StreakNew(IF rows = <<>> THEN None ELSE Some(rows[1]),
                                 c.day, c.has_any))

\* C3: when two recompute_for_day calls for the same (user, child) overlap,
\* the final streak row is the row that running the two one after the
\* other, in some order, produces.
C3_NoLostStreakUpdate ==
    ((\A p \in Procs : ~InCall(p)) /\ Len(epoch.calls) = 2 /\ epoch.ok
        /\ epoch.calls[1].user = epoch.calls[2].user
        /\ epoch.calls[1].child = epoch.calls[2].child)
    =>  LET k == <<epoch.calls[1].user, epoch.calls[1].child>>
            a == epoch.calls[1]
            b == epoch.calls[2]
        IN  gam_streak[k] \in {ApplyStreak(ApplyStreak(epoch.s0[k], a), b),
                               ApplyStreak(ApplyStreak(epoch.s0[k], b), a)}

BestLength(rows) == IF rows = <<>> THEN 0 ELSE rows[1].best_length

\* C4: the persisted best_length of a (user, child) never decreases from
\* one state to the next, whether the calls follow each other or overlap.
C4_BestNeverDecreases ==
    [][\A k \in StreakKeys : BestLength(gam_streak'[k]) >= BestLength(gam_streak[k])]_vars

\* C5: a recompute_for_day call for a date with no meals leaves the streak
\* row's current_length, best_length and last_active_date as they were
\* before the call (where there was no row, there is none afterwards or one
\* holding 0, 0 and NULL).
C5_NoActivityKeepsStreak ==
    (hist.last # None /\ ~LastCall.has_any)
    =>  LET k == <<LastCall.user, LastCall.child>>
            before == LastCall.pre.streak[k]
            after == LastCall.post.streak[k]
        IN  IF before # <<>>
            THEN after = before
            ELSE after \in {<<>>, <<[current_length |-> 0, best_length |-> 0,
                                     last_active_date |-> None]>>}

\* Reached: a day without meals was recomputed while a streak was running.
C5_Witness ==
    /\ hist.last # None /\ ~LastCall.has_any
    /\ LastCall.pre.streak[<<LastCall.user, LastCall.child>>] # <<>>
    /\ LastCall.pre.streak[<<LastCall.user, LastCall.child>>][1].current_length >= 1

\* C6: every streak row has best_length >= current_length >= 0, and there
\* is at most one row per (user, child), after any interleaving of calls.
C6_StreakRowsWellFormed ==
    \A k \in StreakKeys :
        /\ Len(gam_streak[k]) <= 1
        /\ \A i \in 1..Len(gam_streak[k]) :
            /\ gam_streak[k][i].current_length >= 0
            /\ gam_streak[k][i].best_length >= gam_streak[k][i].current_length

\* Reached: overlapping calls have written the streak row, the later write
\* onto the earlier one, and the streak has grown to 2.
C6_Witness ==
    /\ Len(epoch.calls) = 2
    /\ \E k \in StreakKeys :
        /\ gam_streak[k] # <<>>
        /\ gam_streak[k][1].current_length = 2

\* C7: for every totals mapping and every age band the score is an integer
\* in 0..100 and each component lies between 0 and its nutrient's weight.
C7_ScoreBounded ==
    calc.out # None
    =>  /\ calc.out[1].score \in 0..100
        /\ \A i \in 1..Len(WeightKeys) :
            calc.out[1].components[i] \in 0..weights[WeightKeys[i]]

\* C8: when the child does not exist or is not the caller's,
\* recompute_for_day creates or modifies no DailyScore, ledger or streak row.
C8_NotFoundWritesNothing ==
    (hist.last # None /\ ~LastCall.found) => LastCall.post = LastCall.pre

\* C9: recompute_for_day returns its snapshot without raising, whichever of
\* its storage steps (score write and read-back, points insert, streak read,
\* streak upsert) fails.
C9_AlwaysReturnsSnapshot ==
    \A p \in Procs :
        (result[p] # None /\ "has_any" \notin result[p][1].failed)
        => ~result[p][1].out.raised

RECURSIVE SumPoints(_)
SumPoints(rs) ==
    IF rs = {} THEN 0
    ELSE LET r == CHOOSE x \in rs : TRUE IN PointsOf(r) + SumPoints(rs \ {r})

\* C10: a call in which no statement fails attempts the base grant always,
\* the score70 grant iff the score it computed is >= 70 and the score90
\* grant iff it is >= 90, and returns as points_awarded_today the points of
\* the grants whose insert made a row in this call.
C10_GrantsFollowComputedScore ==
    \A p \in Procs :
        (result[p] # None /\ result[p][1].failed = {} /\ ~result[p][1].out.raised)
        =>  LET r == result[p][1]
            IN  /\ "base" \in r.attempted
                /\ "score70" \in r.attempted <=> r.daily.score >= 70
                /\ "score90" \in r.attempted <=> r.daily.score >= 90
                /\ r.out.points_awarded_today = SumPoints(r.granted)

EmptyTables ==
    [ds |-> [k \in DsKeys |-> <<>>],
     ledger |-> [k \in LedgerKeys |-> <<>>],
     streak |-> [k \in StreakKeys |-> <<>>]]

\* C11: for an existing child with no meals on the date and no prior
\* gamification state, recompute_for_day returns score 0, components {} (the
\* empty mapping), streak {current: 0, best: 0} and points_awarded_today 0.
C11_NoMealsZeroSnapshot ==
    (hist.last # None /\ LastCall.found /\ ~LastCall.has_any
        /\ LastCall.failed = {} /\ LastCall.pre = EmptyTables)
    =>  /\ ~LastCall.out.raised
        /\ LastCall.out.score = 0
        /\ LastCall.out.components = <<>>
        /\ LastCall.out.streak = [current |-> 0, best |-> 0]
        /\ LastCall.out.points_awarded_today = 0

\* The last call was the first recompute of a day whose only meal is "half".
HalfDayFirstRecompute ==
    /\ hist.last # None /\ ~LastCall.clean /\ LastCall.failed = {}
    /\ \A r \in Reasons :
          LastCall.pre.ledger[<<LastCall.user, LastCall.child, LastCall.day, r>>] = <<>>
    /\ LET ms == MealsOn(LastCall.user, LastCall.child, LastCall.day)
       IN  Cardinality(ms) = 1 /\ \A m \in ms : m.kind = "half"

\* C12: for a day whose only meal meets 100% of the calories and protein
\* targets and 0% of the other weighted nutrients, recompute_for_day returns
\* score 50 with components 25, 25, 0, 0, 0, 0, and the first recompute of
\* the day grants base only (points_awarded_today = 10).
C12_HalfDayScoresFifty ==
    HalfDayFirstRecompute
    =>  /\ LastCall.out.score = 50
        /\ LastCall.out.components = <<25, 25, 0, 0, 0, 0>>
        /\ LastCall.out.points_awarded_today = 10
        /\ LedgerOfDay(LastCall.post, LastCall) =
                [r \in Reasons |-> IF r = "base" THEN <<10>> ELSE <<>>]

\* Reached: such a day has been recomputed for the first time, after a day
\* that scored higher.
C12_Witness ==
    /\ HalfDayFirstRecompute
    /\ LastCall.day = 2
    /\ ~LastCall.out.raised
    /\ gam_points_ledger[<<"u1", "c1", 1, "score70">>] # <<>>

\* C13: with a meal on each of seven consecutive dates, recomputed in
\* ascending date order from no streak row, the streak after the seventh
\* date's recompute is current_length 7 and best_length 7, and further
\* recomputes of the seventh date leave it there.
C13_SevenDaysGiveSeven ==
    (hist.last # None /\ LastCall.day = SevenDays)
    =>  /\ LastCall.post.streak[<<"u1", "c1">>] =
                <<[current_length |-> SevenDays, best_length |-> SevenDays,
                   last_active_date |-> Some(SevenDays)]>>
        /\ LastCall.out.streak = [current |-> SevenDays, best |-> SevenDays]

\* Reached: the seventh date has been recomputed, and recomputed again.
C13_Witness ==
    /\ hist.prev # None /\ hist.last # None
    /\ PrevCall.day = SevenDays /\ LastCall.day = SevenDays /\ LastCall.clean
    /\ gam_streak[<<"u1", "c1">>][1].current_length = SevenDays

\* C14: once the seventh date's recompute_for_day has completed, the user
\* holds exactly one seven_day_strong badge grant, however often the seventh
\* date is recomputed.
C14_SevenDayBadgeOnce ==
    (hist.last # None /\ LastCall.day = SevenDays /\ ~LastCall.out.raised)
    =>  user_badges["u1"]["seven_day_strong"] = 1

\* C16: recompute_for_day calls for two different dates of one (user,
\* child) share no persisted state, so the streak row they leave is the same
\* for either order of the two and for every interleaving.
C16_DaysIndependent ==
    ((\A p \in Procs : ~InCall(p)) /\ Len(epoch.calls) = 2 /\ epoch.ok
        /\ epoch.calls[1].user = epoch.calls[2].user
        /\ epoch.calls[1].child = epoch.calls[2].child
        /\ epoch.calls[1].day # epoch.calls[2].day)
    =>  LET k == <<epoch.calls[1].user, epoch.calls[1].child>>
            a == epoch.calls[1]
            b == epoch.calls[2]
        IN  /\ ApplyStreak(ApplyStreak(epoch.s0[k], a), b)
                    = ApplyStreak(ApplyStreak(epoch.s0[k], b), a)
            /\ gam_streak[k] = ApplyStreak(ApplyStreak(epoch.s0[k], a), b)

\* C17: under any interleaving of calls for one (user, child, date) no
\* call's DailyScore write fails on the unique constraint, and the table
\* holds one row for the key.
C17_ScoreWriteAtomic ==
    /\ \A p \in Procs :
          pc[p] = "ds_commit"
          => ~(ForeignKeyOk(loc[p].child)
               /\ OrmFlushConflict(gam_daily_score[<<loc[p].user, loc[p].child, loc[p].day>>],
                                   loc[p].existing_ds))
    /\ \A k \in DsKeys : Len(gam_daily_score[k]) <= 1

\* The score persisted for a day: of its row, or no row.
ScoreOfDay(t, day) ==
    IF t.ds[<<"u1", "c1", day>>] = <<>> THEN None
    ELSE Some(t.ds[<<"u1", "c1", day>>][1].score)

NoTotals == [k \in NutrientKeys |-> None]

\* An edit moved the only meal of day r.day to a non-adjacent day.
MovedAway(r) ==
    /\ r.kind = "edit"
    /\ \E b \in r.affected : b - r.day > 1 \/ r.day - b > 1
    /\ MealsOn("u1", "c1", r.day) = {}

\* C15: when the only meal of day A is moved to a non-adjacent day B and
\* recompute_for_day runs for A and then for B, the persisted score of A is
\* that of a day without meals and the persisted score of B that of the
\* moved meal; and once A's recompute has completed, the streak is not left
\* with last_active_date = A and a current_length that counts A.
C15_MovedMealLeavesNoCredit ==
    /\ \A p \in Procs :
          (loc[p].route # None /\ MovedAway(loc[p].route[1])
              /\ loc[p].route[1].day \in loc[p].route[1].done)
          =>  LET row == gam_streak[<<"u1", "c1">>]
              IN  ~(row # <<>> /\ row[1].last_active_date = Some(loc[p].route[1].day)
                      /\ row[1].current_length >= 1)
    /\ (hist.last # None /\ MovedAway(LastCall) /\ LastCall.done = LastCall.affected)
       =>  LET b == CHOOSE d \in LastCall.affected : d # LastCall.day
               ms == MealsOn("u1", "c1", b)
           IN  /\ ScoreOfDay(LastCall.post[1], LastCall.day)
                    = Some(ScoreOf(targets_for_age_region(48), NoTotals).score)
               /\ Cardinality(ms) = 1
                   => \A m \in ms :
                        ScoreOfDay(LastCall.post[1], b)
                            = Some(ScoreOf(targets_for_age_region(48),
                                           Nutrients(m.kind)).score)

\* The persisted DailyScore row of a read's key, in the tables t.
RowOfRead(t, c) == t.ds[<<"u1", "c1", c.day>>]

MutationKinds == {"log", "edit", "delete"}

\* C19: a completed meal create, edit or delete has called recompute_for_day,
\* after its commit, for every calendar day it affects: the meal's day for a
\* create or delete, the old day and (when it differs) the new day for an
\* edit.
C19_EveryAffectedDayRecomputed ==
    (hist.last # None /\ LastCall.kind \in MutationKinds)
    =>  LastCall.called = LastCall.affected

\* A completed create, edit, delete or batch-sync one of whose
\* recompute_for_day calls raised.
RecomputeRaised(c) ==
    /\ c.kind \in MutationKinds \cup {"batch"}
    /\ c.called \ c.done # {}

\* Handler p is inside a call of recompute_for_day.
InRecompute(p) == pc[p] \notin {"idle", "route"}

\* C20: no step of recompute_for_day, failing or not, changes the meals
\* table, so the committed meal change stays; and every meal create, edit,
\* delete and batch-sync that completes reports success, also when its
\* recompute_for_day raised.
C20_RecomputeNeverFailsMutation ==
    [][/\ \A p \in Procs :
            (InRecompute(p) /\ <<pc[p], loc[p]>>' # <<pc[p], loc[p]>>) => meals' = meals
       /\ hist'.last # None
            => (hist'.last[1].kind \in MutationKinds \cup {"batch"}
                    => hist'.last[1].status = "ok")]_vars

C20_Witness ==
    /\ hist.last # None
    /\ RecomputeRaised(LastCall)
    /\ LastCall.status = "ok"
    /\ LastCall.meals = LastCall.committed

\* The streak row of a recorded call's (user, child) in the tables t.
StreakRowOf(t, c) == t.streak[<<c.user, c.child>>]

\* C25: a recompute for date d with at least one meal makes the streak a
\* function of the prior row only: current_length is prior + 1 when
\* last_active_date = d - 1, the prior value when last_active_date = d, and
\* 1 for any other last_active_date or no prior row; last_active_date is d
\* and best_length the larger of the prior best_length and the new
\* current_length.
C25_StreakFromPriorRow ==
    (hist.last # None /\ LastCall.has_any /\ LastCall.failed = {})
    =>  LET prior == StreakRowOf(LastCall.pre, LastCall)
            now == StreakRowOf(LastCall.post, LastCall)
            cur == IF prior = <<>> THEN 1
                   ELSE IF prior[1].last_active_date = Some(LastCall.day - 1)
                        THEN prior[1].current_length + 1
                   ELSE IF prior[1].last_active_date = Some(LastCall.day)
                        THEN prior[1].current_length
                   ELSE 1
        IN  /\ Len(now) = 1
            /\ now[1].current_length = cur
            /\ now[1].last_active_date = Some(LastCall.day)
            /\ now[1].best_length = Max(IF prior = <<>> THEN 0 ELSE prior[1].best_length, cur)

\* Reached: a day already counted in a streak of 2 is recomputed with a
\* meal on it, and the call before it extended the streak from the day
\* before.
C25_Witness ==
    /\ hist.last # None /\ LastCall.has_any /\ LastCall.failed = {}
    /\ StreakRowOf(LastCall.pre, LastCall) # <<>>
    /\ StreakRowOf(LastCall.pre, LastCall)[1].last_active_date = Some(LastCall.day)
    /\ StreakRowOf(LastCall.pre, LastCall)[1].current_length = 2
    /\ StreakRowOf(LastCall.post, LastCall)[1].current_length = 2

\* C23: when no storage step fails, recompute_for_day returns the state it
\* persisted: the returned streak {current, best} is the Streak row's
\* current_length and best_length at the end of the call and the returned
\* score the DailyScore row's score, on days with and without meals.
C23_SnapshotIsPersistedState ==
    (hist.last # None /\ LastCall.failed = {} /\ LastCall.found)
    =>  LET row == StreakRowOf(LastCall.post, LastCall)
            ds == LastCall.post.ds[<<LastCall.user, LastCall.child, LastCall.day>>]
        IN  /\ ~LastCall.out.raised
            /\ Len(row) = 1 /\ Len(ds) = 1
            /\ LastCall.out.streak.current = row[1].current_length
            /\ LastCall.out.streak.best = row[1].best_length
            /\ LastCall.out.score = ds[1].score

\* The number of consecutive calendar days ending at day d on which the
\* child has a meal now.
RECURSIVE RunEndingAt(_, _, _)
RunEndingAt(user, child, d) ==
    IF d < 1 \/ ~HasAnyMeal(user, child, d) THEN 0
    ELSE 1 + RunEndingAt(user, child, d - 1)

\* C28: after any sequence of meal mutations and non-overlapping
\* recompute_for_day calls, a streak row whose last_active_date is set has
\* as current_length the number of consecutive calendar days ending at
\* last_active_date that now have at least one meal.
C28_CurrentLengthCountsRun ==
    (\A p \in Procs : pc[p] = "idle")
    =>  \A k \in StreakKeys :
            (gam_streak[k] # <<>> /\ gam_streak[k][1].last_active_date # None)
            =>  gam_streak[k][1].current_length
                    = RunEndingAt(k[1], k[2], gam_streak[k][1].last_active_date[1])

\* The score compute_daily_score gives the meals now committed for a key of
\* the owner's child.
ScoreOfMeals(k) ==
    ScoreOf(targets_for_age_region(children[k[2]][1].age_months),
            totals_for_day(k[1], k[2], k[3])).score

\* C27: for every (user, child, date), once all the recompute_for_day calls
\* that the committed meal mutations of that date triggered have finished,
\* however they interleaved, the persisted DailyScore score is the score
\* computed from the meals committed for that date and the persisted
\* components sum to it.
C27_RacedScoreIsFinalScore ==
    (\A p \in Procs : pc[p] = "idle")
    =>  \A k \in DsKeys :
            (gam_daily_score[k] # <<>> /\ ChildOf(k[1], k[2]) # None)
            =>  /\ gam_daily_score[k][1].score = ScoreOfMeals(k)
                /\ SumSeq(gam_daily_score[k][1].components) = gam_daily_score[k][1].score

\* Whether the ledger holds a row of this reason for the owner's child on
\* day d, and the day's points total.
HasRow(d, reason) == gam_points_ledger[<<"u1", "c1", d, reason>>] # <<>>

RECURSIVE SumPointsOfRows(_)
SumPointsOfRows(rows) ==
    IF rows = <<>> THEN 0 ELSE Head(rows) + SumPointsOfRows(Tail(rows))

DayTotal(d) ==
    SumPointsOfRows(gam_points_ledger[<<"u1", "c1", d, "base">>])
    + SumPointsOfRows(gam_points_ledger[<<"u1", "c1", d, "score70">>])
    + SumPointsOfRows(gam_points_ledger[<<"u1", "c1", d, "score90">>])

LedgerChain(d) ==
    /\ HasRow(d, "score90") => HasRow(d, "score70")
    /\ HasRow(d, "score70") => HasRow(d, "base")
    /\ DayTotal(d) \in {0, 10, 20, 40}

\* C30: in every ledger state, for each (user, child, date), a score90 row
\* implies a score70 row and a score70 row a base row, so the day's points
\* total is 0, 10, 20 or 40; and no step lowers it: not an interleaved
\* recompute, not an insert that fails in the middle of a call, not a
\* recompute after the day's score has dropped below a threshold.
C30_LedgerChainMonotone ==
    [][\A d \in DayChoices :
            /\ LedgerChain(d)'
            /\ DayTotal(d)' >= DayTotal(d)]_vars

\* Reached: a call whose score70 insert raised has ended, leaving the base
\* row alone beside a persisted score of 70 or more.
C30_Witness ==
    /\ \A p \in Procs : pc[p] = "idle"
    /\ fails = 1
    /\ HasRow(1, "base") /\ ~HasRow(1, "score70")
    /\ gam_daily_score[<<"u1", "c1", 1>>] # <<>>
    /\ gam_daily_score[<<"u1", "c1", 1>>][1].score >= 70

\* No call for day d is in flight.
Settled(d) == \A p \in Procs : pc[p] = "idle" \/ loc[p].day # d

C24_SummaryAfterLog ==
    (hist.last # None /\ LastCall.kind = "read"
        /\ \E m \in LastCall.meals : m.day = LastCall.day)
    =>  /\ LastCall.summary # None
        /\ LastCall.summary[1].streak.current >= 1
        /\ LastCall.summary[1].points_today >= 10

\* Reached: the summary of the day was read, then the day's first meal was
\* logged, then the summary was read again.
C24_Witness ==
    /\ hist.prev # None /\ hist.last # None
    /\ PrevCall.kind = "log" /\ LastCall.kind = "read"
    /\ PrevCall.day = LastCall.day
    /\ reqs = 3 /\ meal_seq = 1
    /\ StreakRowOf(PrevCall.pre[1], [user |-> "u1", child |-> "c1"]) # <<>>
    /\ StreakRowOf(PrevCall.pre[1], [user |-> "u1", child |-> "c1"])[1].current_length = 0
    /\ LastCall.summary[1].streak.current = 1

\* C21: after a Child is deleted, no DailyScore row, ledger row, Streak row
\* or badge grant that belonged to the child remains, whatever the child had
\* accumulated.  (Every badge evaluation of the schedule is for this child,
\* the user's only one.)
C21_ChildDeletionCascades ==
    children["c1"] = <<>>
    =>  /\ \A k \in DsKeys : k[2] = "c1" => gam_daily_score[k] = <<>>
        /\ \A k \in LedgerKeys : k[2] = "c1" => gam_points_ledger[k] = <<>>
        /\ \A k \in StreakKeys : k[2] = "c1" => gam_streak[k] = <<>>
        /\ \A b \in BadgeNames : user_badges["u1"][b] = 0

\* C22: in every reachable state, after any number of badge evaluations
\* for a user, one after another or interleaved, there is at most one badge
\* grant per (user, badge name).
C22_OneGrantPerBadge ==
    \A u \in Users, b \in BadgeNames : user_badges[u][b] <= 1

\* C26: maybe_award_badges never passes an exception to its caller, neither
\* when the badge catalog or the grant store is unavailable nor when a
\* catalog badge row has to be created for the first time, and no step of
\* it changes a DailyScore, ledger or streak row.
C26_BadgeEvaluationIsolated ==
    [][/\ \A p \in Procs : award'[p].pc = "done" => ~award'[p].raised
       /\ award' # award => Tables' = Tables]_vars

====
